---- MODULE Spec2Model ----
(***************************************************************************)
(* InterfaceAttachmentController of                                        *)
(* api/openstack/compute/plugins/v3/attach_interfaces.py.                  *)
(*                                                                         *)
(* The controller keeps no state of its own: the state is the instances    *)
(* and ports held by the compute and network services, and, per request   *)
(* in flight, the handler's position and its local variables.  A handler  *)
(* is cut into steps at its collaborator calls, so that requests can      *)
(* interleave at exactly the points where the code reads or changes the   *)
(* shared state.                                                           *)
(***************************************************************************)
EXTENDS Naturals, Sequences, FiniteSets, TLC

VARIABLES instances, ports, req, started

vars == <<instances, ports, req, started>>

----------------------------------------------------------------------------
(* Bounds                                                                  *)

\* requests started in one behaviour
MaxRequests == 2

\* port ids the network service can hold
MaxPorts == 2

PortNames == <<"p1", "p2", "p3", "p4">>
PortIds == {PortNames[i] : i \in 1..MaxPorts}
ServerIds == {"s1", "s2"}
Nets == {"netA", "netB"}
Reqs == {"r1", "r2"}

\* Python's None, and the values Python's truth test takes as false
None == "None"
Truthy(v) == v \notin {None, ""}

----------------------------------------------------------------------------
(* Data                                                                    *)

\* a port record of the network service; found = FALSE stands for "no such port"
NoPort ==
    [found |-> FALSE, id |-> None, network_id |-> None, mac_address |-> None,
     status |-> None, device_id |-> None, fixed_ips |-> None]

MacOf(p) == "mac-" \o p
IpOf(p) == "ip-" \o p

Port(p, dev, net) ==
    [found |-> TRUE, id |-> p, network_id |-> net, mac_address |-> MacOf(p),
     status |-> "ACTIVE", device_id |-> dev, fixed_ips |-> IpOf(p)]

\* request bodies of create
NoFixedIps == [present |-> FALSE, list |-> <<>>]
FixedIpsVals ==
    {NoFixedIps, [present |-> TRUE, list |-> <<>>]}
    \cup {[present |-> TRUE, list |-> <<[ip_address |-> x]>>] : x \in {"", "10.0.0.1"}}

EmptyBody ==
    [kind |-> "empty", net_id |-> None, port_id |-> None, fixed_ips |-> NoFixedIps]
NoKeyBody ==
    [kind |-> "no_key", net_id |-> None, port_id |-> None, fixed_ips |-> NoFixedIps]
Bodies ==
    {EmptyBody, NoKeyBody}
    \cup {[kind |-> "attachment", net_id |-> n, port_id |-> p, fixed_ips |-> f] :
            n \in {None, "", "netA"}, p \in {None, "", "p1"}, f \in FixedIpsVals}

\* responses
NoBody == [kind |-> "none", items |-> <<>>]
NoResp == [exc |-> "", status |-> 0, body |-> NoBody]

\* the status of the response an exception ends the request with: the webob
\* exceptions carry their own, the authorizer's is 403, and an exception no
\* handler catches leaves the request as a server error
StatusOf(e) ==
    CASE e = "HTTPBadRequest" -> 400
      [] e = "NotAuthorized" -> 403
      [] e = "HTTPNotFound" -> 404
      [] e = "HTTPNotImplemented" -> 501
      [] OTHER -> 500

Raise(e) == [exc |-> e, status |-> StatusOf(e), body |-> NoBody]


NoData == [has_ports |-> FALSE, ports |-> <<>>]

\* a request slot: the inputs of the request, the handler's position (pc) and
\* locals, the calls made so far (trace), the collaborator failure met
\* (failure), what the collaborators returned (attached, read, data) and the
\* response
Idle ==
    [op |-> "", server_id |-> None, id |-> None, body |-> EmptyBody,
     authorized |-> FALSE, pc |-> "idle", network_id |-> None, port_id |-> None,
     req_ip |-> None, attached |-> NoPort, read |-> NoPort, data |-> NoData,
     failure |-> "", trace |-> <<>>, resp |-> NoResp]

NewRequest(op, s, id, body, auth) ==
    [Idle EXCEPT !.op = op, !.server_id = s, !.id = id, !.body = body,
                 !.authorized = auth]

----------------------------------------------------------------------------
(* The collaborators: compute.API, network.API and the authorizer.  Their  *)
(* code is outside this file; they are the environment of the controller.  *)

\* authorize(context): raises unless the context is allowed
authorize(auth) == IF auth THEN "" ELSE "NotAuthorized"

\* compute_api.get(context, server_id)
compute_get(I, s) == IF s \in I THEN "" ELSE "InstanceNotFound"

\* network_api.show_port(context, port_id)
network_show_port(P, p) == IF p \in PortIds THEN P[p] ELSE NoPort

\* compute_api.attach_interface(context, instance, network_id, port_id, req_ip)
AttachOutcomes(I, P, uuid, network_id, port_id, req_ip) ==
    {[exc |-> e, port |-> NoPort] : e \in {"NotImplementedError", "InterfaceAttachFailed"}}
    \cup
    (IF uuid \notin I
       THEN {[exc |-> "InstanceNotFound", port |-> NoPort]}
     ELSE IF Truthy(port_id)
       THEN {[exc |-> "", port |-> [P[p] EXCEPT !.device_id = uuid]] :
                p \in {x \in PortIds : x = port_id /\ P[x].found /\ P[x].device_id = ""}}
       ELSE {[exc |-> "", port |-> Port(p, uuid, n)] :
                p \in {x \in PortIds : ~P[x].found},
                n \in (IF Truthy(network_id) THEN {network_id} ELSE Nets)})

\* compute_api.detach_interface(context, instance, port_id)
DetachOutcomes(P, uuid, port_id) ==
    {"NotImplementedError"}
    \cup (IF port_id \in PortIds /\ P[port_id].found /\ P[port_id].device_id = uuid
            THEN {""} ELSE {"PortNotFound"})

Perms(S) ==
    {f \in [1..Cardinality(S) -> S] : \A i, j \in 1..Cardinality(S) : f[i] = f[j] => i = j}

\* network_api.list_ports(context, device_id=uuid)
ListPortsOutcomes(P, uuid) ==
    LET matching == {P[p] : p \in {x \in PortIds : P[x].found /\ P[x].device_id = uuid}}
    IN  {[exc |-> e, data |-> NoData] : e \in {"NotFound", "NotImplementedError"}}
        \cup {[exc |-> "", data |-> [has_ports |-> TRUE, ports |-> f]] : f \in Perms(matching)}
        \cup (IF matching = {} THEN {[exc |-> "", data |-> NoData]} ELSE {})

----------------------------------------------------------------------------
(* The controller's own logic, as functions of what the handler has read   *)

translate_interface_attachment_view(port_info) ==
    [net_id |-> port_info.network_id,
     port_id |-> port_info.id,
     mac_addr |-> port_info.mac_address,
     port_state |-> port_info.status,
     fixed_ips |-> port_info.fixed_ips]

Return200(kind, items) ==
    [exc |-> "", status |-> 200, body |-> [kind |-> kind, items |-> items]]

\* show without the check of the port's owner
show_result_no_owner(port_info, server_id) ==
    IF ~port_info.found
      THEN Raise("HTTPNotFound")
      ELSE Return200("interface_attachment",
                     <<translate_interface_attachment_view(port_info)>>)

\* show, from the answer of show_port on
show_result(port_info, server_id) ==
    IF ~port_info.found
      THEN Raise("HTTPNotFound")
      ELSE IF port_info.device_id # server_id
             THEN Raise("HTTPNotFound")
             ELSE Return200("interface_attachment",
                            <<translate_interface_attachment_view(port_info)>>)

\* the except clause of the handlers' compute_api.get
get_except(e) ==
    IF e = "InstanceNotFound" THEN Raise("HTTPNotFound") ELSE Raise(e)

\* create: reading the body
create_parse(body) ==
    IF body.kind = "empty"
      THEN [exc |-> "", network_id |-> None, port_id |-> None, req_ip |-> None]
      ELSE IF body.kind = "no_key"
             THEN [exc |-> "KeyError", network_id |-> None, port_id |-> None,
                   req_ip |-> None]
             ELSE [exc |-> "", network_id |-> body.net_id, port_id |-> body.port_id,
                   req_ip |-> IF body.fixed_ips.present /\ Len(body.fixed_ips.list) >= 1
                                THEN body.fixed_ips.list[1].ip_address
                                ELSE None]

\* the checks of create without the one on net_id and port_id together
create_validate_no_both(network_id, port_id, req_ip) ==
    IF Truthy(req_ip) /\ ~Truthy(network_id) THEN "HTTPBadRequest" ELSE ""

\* the checks of create without the one on a fixed ip with no net_id
create_validate_no_ip(network_id, port_id, req_ip) ==
    IF Truthy(network_id) /\ Truthy(port_id) THEN "HTTPBadRequest" ELSE ""

\* create: the two checks on the parsed body
create_validate(network_id, port_id, req_ip) ==
    IF Truthy(network_id) /\ Truthy(port_id)
      THEN "HTTPBadRequest"
      ELSE IF Truthy(req_ip) /\ ~Truthy(network_id)
             THEN "HTTPBadRequest"
             ELSE ""

\* whether an exception object has a format_message method: the exceptions of
\* nova.exception have one, Python's built-in NotImplementedError has none
HasFormatMessage(e) == e # "NotImplementedError"

\* create: the except clauses around get and attach_interface
create_except(e) ==
    CASE e = "InstanceNotFound" -> Raise("HTTPNotFound")
      [] e = "NotImplementedError" ->
            IF HasFormatMessage(e) THEN Raise("HTTPNotImplemented")
                                   ELSE Raise("AttributeError")
      [] e = "InterfaceAttachFailed" -> Raise("HTTPInternalServerError")
      [] OTHER -> Raise(e)

\* update accepting the request as a no-op
update_result_accepted == [exc |-> "", status |-> 200, body |-> NoBody]

\* update
update_result == Raise("HTTPNotImplemented")

\* delete without the except clause for PortNotFound
delete_except_no_port(e) ==
    CASE e = "NotImplementedError" ->
            IF HasFormatMessage(e) THEN Raise("HTTPNotImplemented")
                                   ELSE Raise("AttributeError")
      [] OTHER -> Raise(e)

\* delete: the except clauses around detach_interface
delete_except(e) ==
    CASE e = "PortNotFound" -> Raise("HTTPNotFound")
      [] e = "NotImplementedError" ->
            IF HasFormatMessage(e) THEN Raise("HTTPNotImplemented")
                                   ELSE Raise("AttributeError")
      [] OTHER -> Raise(e)

\* delete: webob.Response(status_int=202)
delete_return == [exc |-> "", status |-> 202, body |-> [kind |-> "empty", items |-> <<>>]]

\* _items: the except clauses around list_ports
items_except(e) ==
    CASE e = "NotFound" -> Raise("HTTPNotFound")
      [] e = "NotImplementedError" -> Raise("HTTPNotImplemented")
      [] OTHER -> Raise(e)

\* _items answering in the reverse of the order returned
items_result_reversed(data) ==
    LET prts == IF data.has_ports THEN data.ports ELSE <<>>
    IN  Return200("interface_attachments",
                  [i \in 1..Len(prts) |->
                     translate_interface_attachment_view(prts[Len(prts) + 1 - i])])

\* _items: from the answer of list_ports on
items_result(data) ==
    LET prts == IF data.has_ports THEN data.ports ELSE <<>>
    IN  Return200("interface_attachments",
                  [i \in 1..Len(prts) |-> translate_interface_attachment_view(prts[i])])

----------------------------------------------------------------------------
(* The handlers, one step per collaborator call                            *)

CanStart(r) == req[r].pc \in {"idle", "done"} /\ started < MaxRequests

Begin(r, q) ==
    /\ req' = [req EXCEPT ![r] = q]
    /\ started' = started + 1
    /\ UNCHANGED <<instances, ports>>

Step(r, q) ==
    /\ req' = [req EXCEPT ![r] = q]
    /\ UNCHANGED <<instances, ports, started>>

\* the handler ends with response rsp
Finish(q, rsp) == [q EXCEPT !.pc = "done", !.resp = rsp]

\* the handler ends because collaborator call failed with e
Fail(q, e, rsp) == [q EXCEPT !.pc = "done", !.failure = e, !.resp = rsp]

Called(q, call) == [q EXCEPT !.trace = Append(@, call)]

\* a handler that does not call authorize
authorized_entry_missing(q) == q

\* the entry of show, create, delete and _items: authorize(context), which
\* ends the handler when it raises
authorized_entry(q) ==
    LET a == Called(q, "authorize")
    IN  IF authorize(q.authorized) # ""
          THEN Finish(a, Raise(authorize(q.authorized)))
          ELSE a

\* compute_api.get(context, server_id): on success the handler goes on at
\* position next, on failure its except clause answers with rsp
Got(q0, next, rsp) ==
    LET q == Called(q0, "get")
        e == compute_get(instances, q.server_id)
    IN  IF e # "" THEN Fail(q, e, rsp) ELSE [q EXCEPT !.pc = next]

\* show(req, server_id, id)
show(r, s, id, auth) ==
    /\ CanStart(r)
    /\ LET go(a) == [a EXCEPT !.pc = "show_get"]
       IN  LET a == authorized_entry(NewRequest("show", s, id, EmptyBody, auth))
           IN  Begin(r, IF a.pc = "done" THEN a ELSE go(a))

show_get(r) ==
    /\ req[r].pc = "show_get"
    /\ Step(r, Got(req[r], "show_port", get_except(compute_get(instances, req[r].server_id))))

show_port(r) ==
    /\ req[r].pc = "show_port"
    /\ LET q == Called(req[r], "show_port")
           port_info == network_show_port(ports, q.id)
           got == [q EXCEPT !.read = port_info]
       IN  Step(r, IF ~port_info.found
                     THEN Fail(got, "NotFound", show_result(port_info, q.server_id))
                     ELSE Finish(got, show_result(port_info, q.server_id)))

\* create(req, server_id, body)
create(r, s, body, auth) ==
    /\ CanStart(r)
    /\ LET go(a) ==
             LET v == Called(a, "validate")
                 b == create_parse(body)
                 bad == create_validate(b.network_id, b.port_id, b.req_ip)
                 parsed == [v EXCEPT !.network_id = b.network_id,
                                     !.port_id = b.port_id, !.req_ip = b.req_ip]
             IN  IF b.exc # "" THEN Finish(v, Raise(b.exc))
                 ELSE IF bad # "" THEN Finish(parsed, Raise(bad))
                 ELSE [parsed EXCEPT !.pc = "create_get"]
       IN  LET a == authorized_entry(NewRequest("create", s, None, body, auth))
           IN  Begin(r, IF a.pc = "done" THEN a ELSE go(a))

create_get(r) ==
    /\ req[r].pc = "create_get"
    /\ Step(r, Got(req[r], "create_attach", create_except(compute_get(instances, req[r].server_id))))

\* create showing the port id of the request instead of the attached port's
create_shown_requested(port_id, port_info) == port_id

\* the port the handler goes on to show after attach_interface returned
\* port_info
create_shown(port_id, port_info) == port_info.id

create_attach(r) ==
    /\ req[r].pc = "create_attach"
    /\ \E o \in AttachOutcomes(instances, ports, req[r].server_id, req[r].network_id,
                               req[r].port_id, req[r].req_ip) :
         LET q == Called(req[r], "attach_interface")
         IN  IF o.exc # ""
               THEN Step(r, Fail(q, o.exc, create_except(o.exc)))
               ELSE /\ ports' = [ports EXCEPT ![o.port.id] = o.port]
                    /\ LET a == authorized_entry(
                                    [q EXCEPT !.attached = o.port,
                                              !.id = create_shown(q.port_id, o.port)])
                       IN  req' = [req EXCEPT ![r] =
                                     IF a.pc = "done" THEN a
                                     ELSE [a EXCEPT !.pc = "show_get"]]
                    /\ UNCHANGED <<instances, started>>

\* update(req, server_id, id, body)
update(r, s, id, body, auth) ==
    /\ CanStart(r)
    /\ Begin(r, Finish(NewRequest("update", s, id, body, auth), update_result))

\* delete(req, server_id, id)
delete(r, s, id, auth) ==
    /\ CanStart(r)
    /\ LET go(a) == [a EXCEPT !.pc = "delete_get", !.port_id = id]
       IN  LET a == authorized_entry(NewRequest("delete", s, id, EmptyBody, auth))
           IN  Begin(r, IF a.pc = "done" THEN a ELSE go(a))

delete_get(r) ==
    /\ req[r].pc = "delete_get"
    /\ Step(r, Got(req[r], "delete_detach", get_except(compute_get(instances, req[r].server_id))))

delete_detach(r) ==
    /\ req[r].pc = "delete_detach"
    /\ \E e \in DetachOutcomes(ports, req[r].server_id, req[r].port_id) :
         LET q == Called(req[r], "detach_interface")
         IN  IF e # ""
               THEN Step(r, Fail(q, e, delete_except(e)))
               ELSE /\ ports' = [ports EXCEPT ![q.port_id] = NoPort]
                    /\ req' = [req EXCEPT ![r] = Finish(q, delete_return)]
                    /\ UNCHANGED <<instances, started>>

\* index(req, server_id), which is _items
index(r, s, auth) ==
    /\ CanStart(r)
    /\ LET go(a) == [a EXCEPT !.pc = "items_get"]
       IN  LET a == authorized_entry(NewRequest("index", s, None, EmptyBody, auth))
           IN  Begin(r, IF a.pc = "done" THEN a ELSE go(a))

items_get(r) ==
    /\ req[r].pc = "items_get"
    /\ Step(r, Got(req[r], "items_list_ports", get_except(compute_get(instances, req[r].server_id))))

items_list_ports(r) ==
    /\ req[r].pc = "items_list_ports"
    /\ \E o \in ListPortsOutcomes(ports, req[r].server_id) :
         LET q == Called(req[r], "list_ports")
         IN  Step(r, IF o.exc # ""
                       THEN Fail(q, o.exc, items_except(o.exc))
                       ELSE Finish([q EXCEPT !.data = o.data], items_result(o.data)))

\* the compute service deletes an instance (not a request to this controller)
instance_deleted(s) ==
    /\ s \in instances
    /\ instances' = instances \ {s}
    /\ UNCHANGED <<ports, req, started>>

----------------------------------------------------------------------------
(* Specifications                                                          *)

InitPorts ==
    {f \in [PortIds -> {NoPort} \cup {Port(p, d, "netA") : p \in PortIds, d \in {"", "s1", "s2"}}] :
        \A p \in PortIds : f[p].found => f[p].id = p}

Init ==
    /\ instances = {"s1"}
    /\ ports \in InitPorts
    /\ req = [r \in Reqs |-> Idle]
    /\ started = 0

\* one request at a time, any input
Next ==
    \/ \E s \in ServerIds, id \in PortIds, auth \in BOOLEAN : show("r1", s, id, auth)
    \/ show_get("r1")
    \/ show_port("r1")
    \/ \E s \in ServerIds, body \in Bodies, auth \in BOOLEAN : create("r1", s, body, auth)
    \/ create_get("r1")
    \/ create_attach("r1")
    \/ \E s \in ServerIds, id \in PortIds, body \in {EmptyBody, NoKeyBody}, auth \in BOOLEAN :
          update("r1", s, id, body, auth)
    \/ \E s \in ServerIds, id \in PortIds, auth \in BOOLEAN : delete("r1", s, id, auth)
    \/ delete_get("r1")
    \/ delete_detach("r1")
    \/ \E s \in ServerIds, auth \in BOOLEAN : index("r1", s, auth)
    \/ items_get("r1")
    \/ items_list_ports("r1")

Spec == Init /\ [][Next]_vars

\* requests in flight together; authorized requests with well-formed bodies
ConcBodies ==
    {EmptyBody,
     [kind |-> "attachment", net_id |-> "netA", port_id |-> None, fixed_ips |-> NoFixedIps],
     [kind |-> "attachment", net_id |-> None, port_id |-> "p1", fixed_ips |-> NoFixedIps]}

\* the ports at the start are free to attach or not there yet
ConcInitPorts ==
    {f \in [PortIds -> {NoPort} \cup {Port(p, "", "netA") : p \in PortIds}] :
        \A p \in PortIds : f[p].found => f[p].id = p}

ConcInit ==
    /\ instances = {"s1"}
    /\ ports \in ConcInitPorts
    /\ req = [r \in Reqs |-> Idle]
    /\ started = 0

ConcNext ==
    \E r \in Reqs :
        \/ \E id \in PortIds : show(r, "s1", id, TRUE)
        \/ show_get(r)
        \/ show_port(r)
        \/ \E body \in ConcBodies : create(r, "s1", body, TRUE)
        \/ create_get(r)
        \/ create_attach(r)
        \/ \E id \in PortIds : update(r, "s1", id, EmptyBody, TRUE)
        \/ \E id \in PortIds : delete(r, "s1", id, TRUE)
        \/ delete_get(r)
        \/ delete_detach(r)
        \/ index(r, "s1", TRUE)
        \/ items_get(r)
        \/ items_list_ports(r)
        \/ instance_deleted("s1")

ConcSpec == ConcInit /\ [][ConcNext]_vars

----------------------------------------------------------------------------
(* Properties                                                              *)

Has(q, call) == \E i \in 1..Len(q.trace) : q.trace[i] = call
Count(q, call) == Cardinality({i \in 1..Len(q.trace) : q.trace[i] = call})
Last(q) == IF q.trace = <<>> THEN "" ELSE q.trace[Len(q.trace)]
Index(q, call) == CHOOSE i \in 1..Len(q.trace) : q.trace[i] = call
Collaborators == {"get", "attach_interface", "detach_interface", "show_port", "list_ports"}
ControllerStatuses == {200, 202, 400, 404, 501}

\* the single attachment view of a 200 response carries port id p
IsView(rsp, p) ==
    /\ rsp.status = 200
    /\ rsp.exc = ""
    /\ rsp.body.kind = "interface_attachment"
    /\ Len(rsp.body.items) = 1
    /\ rsp.body.items[1].port_id = p

IsNotFound(rsp) == rsp.status = 404 /\ rsp.exc = "HTTPNotFound" /\ rsp.body = NoBody

\* C1: an authorized show on an existing instance answers with the view of
\* the port, port_id equal to the requested id, exactly when show_port found
\* the port and its device_id is the server_id of the request; otherwise it
\* answers 404 and returns nothing of the port.
C1_ShowOwnership ==
    \A r \in Reqs :
        LET q == req[r]
        IN  (q.op = "show" /\ q.pc = "done" /\ q.authorized /\ ~Has(q, "attach_interface")
             /\ q.failure # "InstanceNotFound")
            => /\ Has(q, "show_port")
               /\ IF q.read.found /\ q.read.device_id = q.server_id
                    THEN IsView(q.resp, q.id) /\ q.read.id = q.id
                    ELSE IsNotFound(q.resp)

\* a show of a port that exists but belongs to another device was answered 404
C1_Witness ==
    \E r \in Reqs :
        /\ req[r].op = "show" /\ req[r].pc = "done"
        /\ req[r].read.found /\ req[r].read.device_id # req[r].server_id
        /\ req[r].resp.status = 404

SuppliesBoth(b) == b.kind = "attachment" /\ b.net_id # None /\ b.port_id # None

\* C2 as stated: an authorized create whose body supplies both net_id and
\* port_id (the keys are there, whatever their values) is answered 400.
C2_Original ==
    \A r \in Reqs :
        (req[r].op = "create" /\ req[r].authorized /\ SuppliesBoth(req[r].body))
        => req[r].pc = "done" /\ req[r].resp.status = 400

\* C2 amended: an authorized create whose body supplies a non-empty net_id and
\* a non-empty port_id is answered 400 before any collaborator is called,
\* whether or not the instance exists.
C2_BothNonEmpty ==
    \A r \in Reqs :
        (req[r].op = "create" /\ req[r].authorized /\ SuppliesBoth(req[r].body)
         /\ Truthy(req[r].body.net_id) /\ Truthy(req[r].body.port_id))
        => /\ req[r].pc = "done"
           /\ req[r].resp.status = 400 /\ req[r].resp.exc = "HTTPBadRequest"
           /\ req[r].trace = <<"authorize", "validate">>

\* such a create for a server that is no instance was answered 400
C2_Witness ==
    \E r \in Reqs :
        /\ req[r].op = "create" /\ req[r].authorized
        /\ Truthy(req[r].body.net_id) /\ Truthy(req[r].body.port_id)
        /\ req[r].server_id \notin instances
        /\ req[r].resp.status = 400

FixedIpNoNet(b) ==
    /\ b.kind = "attachment"
    /\ b.fixed_ips.present /\ Len(b.fixed_ips.list) = 1
    /\ b.net_id = None

\* C3 as stated: an authorized create with fixed_ips [{ip_address: X}] and no
\* net_id is answered 400 for every X.
C3_Original ==
    \A r \in Reqs :
        (req[r].op = "create" /\ req[r].authorized /\ FixedIpNoNet(req[r].body))
        => req[r].pc = "done" /\ req[r].resp.status = 400

\* C3 amended: an authorized create with fixed_ips [{ip_address: X}], X not
\* empty, and no net_id is answered 400, whether or not port_id is supplied.
C3_NonEmptyIp ==
    \A r \in Reqs :
        (req[r].op = "create" /\ req[r].authorized /\ FixedIpNoNet(req[r].body)
         /\ Truthy(req[r].body.fixed_ips.list[1].ip_address))
        => /\ req[r].pc = "done"
           /\ req[r].resp.status = 400 /\ req[r].resp.exc = "HTTPBadRequest"
           /\ req[r].trace = <<"authorize", "validate">>

\* such a create that also supplies a port_id was answered 400
C3_Witness ==
    \E r \in Reqs :
        /\ req[r].op = "create" /\ req[r].authorized /\ FixedIpNoNet(req[r].body)
        /\ Truthy(req[r].body.fixed_ips.list[1].ip_address)
        /\ req[r].body.port_id = "p1"
        /\ req[r].resp.status = 400

\* C4: when attach_interface (create) or detach_interface (delete) fails with
\* NotImplementedError, the response is 501.
C4_NotImplemented ==
    \A r \in Reqs :
        (req[r].op \in {"create", "delete"} /\ req[r].pc = "done"
         /\ req[r].failure = "NotImplementedError"
         /\ Last(req[r]) \in {"attach_interface", "detach_interface"})
        => req[r].resp.status = 501

AttachSucceeded(q) == q.op = "create" /\ q.attached.found

\* C5 as stated: whenever attach_interface succeeded and returned port p, the
\* create is answered 200 with the view of p on the network attach put it on,
\* whatever other requests on the same (still existing) instance did meanwhile.
C5_Original ==
    \A r \in Reqs :
        (AttachSucceeded(req[r]) /\ req[r].pc = "done" /\ req[r].server_id \in instances)
        => /\ IsView(req[r].resp, req[r].attached.id)
           /\ req[r].resp.body.items[1].net_id = req[r].attached.network_id

\* C5 amended: whenever attach_interface succeeded and returned port p, create
\* reads p again through the show path after the attach and answers with what
\* that read finds: 200 with the view of the port as read (port_id = p.id) when
\* the instance is still there and the port is still there with device_id =
\* server_id, 404 otherwise.
C5_ReRead ==
    \A r \in Reqs :
        LET q == req[r]
        IN  (AttachSucceeded(q) /\ q.pc = "done")
            => /\ Count(q, "attach_interface") = 1
               /\ q.id = q.attached.id
               /\ Last(q) \in {"get", "show_port"}
               /\ Index(q, "attach_interface") < Len(q.trace)
               /\ IF Last(q) = "show_port" /\ q.read.found /\ q.read.device_id = q.server_id
                    THEN /\ IsView(q.resp, q.attached.id)
                         /\ q.read.id = q.attached.id
                         /\ q.resp.body.items[1].net_id = q.read.network_id
                    ELSE IsNotFound(q.resp)

\* a create whose attach succeeded was answered 404: the port was gone at the
\* read after the attach
C5_Witness ==
    \E r \in Reqs :
        /\ AttachSucceeded(req[r]) /\ req[r].pc = "done"
        /\ Last(req[r]) = "show_port" /\ ~req[r].read.found
        /\ req[r].resp.status = 404

AuthFirst(q) ==
    /\ q.trace # <<>> /\ q.trace[1] = "authorize"
    /\ ~q.authorized =>
          /\ q.pc = "done"
          /\ q.trace = <<"authorize">>
          /\ q.resp.status \notin ControllerStatuses

\* C6 as stated: every request (list, show, create, update, delete) checks
\* authorization first; when that fails nothing else is called and no status
\* of the controller is returned.
C6_Original ==
    \A r \in Reqs : req[r].op # "" => AuthFirst(req[r])

\* C6 amended: every list, show, create and delete request checks
\* authorization first, and when that fails nothing else is called and no
\* status of the controller is returned; update checks no authorization and
\* answers 501 to every caller, without calling a collaborator.
C6_AuthFirstButUpdate ==
    \A r \in Reqs :
        /\ req[r].op \in {"index", "show", "create", "delete"} => AuthFirst(req[r])
        /\ req[r].op = "update" => req[r].trace = <<>> /\ req[r].resp.status = 501

\* an unauthorized create with a body that validation would reject was turned
\* away by the authorization check
C6_Witness ==
    \E r \in Reqs :
        /\ req[r].op = "create" /\ ~req[r].authorized
        /\ Truthy(req[r].body.net_id) /\ Truthy(req[r].body.port_id)
        /\ req[r].resp.exc = "NotAuthorized"

\* C7: an authorized delete is answered 404 when detach_interface reports
\* PortNotFound, 202 with an empty body when detach_interface returns, and 404
\* without detach_interface being called when the instance does not exist.
C7_Delete ==
    \A r \in Reqs :
        LET q == req[r]
        IN  (q.op = "delete" /\ q.pc = "done" /\ q.authorized)
            => /\ q.failure = "PortNotFound" => IsNotFound(q.resp)
               /\ (q.failure = "" /\ Last(q) = "detach_interface")
                     => /\ q.resp.status = 202
                        /\ q.resp.body = [kind |-> "empty", items |-> <<>>]
               /\ q.failure = "InstanceNotFound"
                     => IsNotFound(q.resp) /\ ~Has(q, "detach_interface")
               /\ q.failure \in {"PortNotFound", "", "InstanceNotFound", "NotImplementedError"}

\* a delete was answered 404 because detach_interface reported PortNotFound
C7_Witness ==
    \E r \in Reqs :
        /\ req[r].op = "delete" /\ req[r].pc = "done"
        /\ req[r].failure = "PortNotFound" /\ req[r].resp.status = 404

UpdateAnswered(q) ==
    q.op = "update"
    => /\ q.pc = "done"
       /\ q.resp = Raise("HTTPNotImplemented") /\ q.resp.status = 501
       /\ \A c \in Collaborators : ~Has(q, c)

UpdateFrame ==
    \A r \in Reqs :
        (req'[r].op = "update" /\ req'[r] # req[r])
        => instances' = instances /\ ports' = ports

\* C8: update is answered 501 for every server_id, id and body, calls neither
\* the compute nor the network service, and leaves instances and ports as
\* they were.
C8_Update == [](\A r \in Reqs : UpdateAnswered(req[r])) /\ [][UpdateFrame]_vars

\* an update was answered while ports exist
C8_Witness ==
    \E r \in Reqs :
        /\ req[r].op = "update" /\ req[r].resp.status = 501
        /\ req[r].body = NoKeyBody
        /\ \E p \in PortIds : ports[p].found

ListSucceeded(q) ==
    q.op = "index" /\ q.pc = "done" /\ q.failure = "" /\ Last(q) = "list_ports"

\* C9: an authorized list on an existing instance whose list_ports succeeded
\* answers with one view per returned port, in the order returned (view i has
\* the port_id of port i), and with an empty sequence when no port was returned
\* or the result has no 'ports' entry.
C9_ListOrder ==
    \A r \in Reqs :
        LET q == req[r]
            returned == IF q.data.has_ports THEN q.data.ports ELSE <<>>
        IN  ListSucceeded(q)
            => /\ q.resp.status = 200
               /\ q.resp.body.kind = "interface_attachments"
               /\ Len(q.resp.body.items) = Len(returned)
               /\ \A i \in 1..Len(returned) :
                     /\ q.resp.body.items[i].port_id = returned[i].id
                     /\ q.resp.body.items[i].net_id = returned[i].network_id

\* a list was answered with two views
C9_Witness ==
    \E r \in Reqs :
        /\ ListSucceeded(req[r])
        /\ Len(req[r].resp.body.items) = 2
        /\ req[r].resp.body.items[1].port_id # req[r].resp.body.items[2].port_id

\* a list was answered with no view because the result had no 'ports' entry
C9_WitnessNoPorts ==
    \E r \in Reqs :
        /\ ListSucceeded(req[r]) /\ ~req[r].data.has_ports
        /\ req[r].resp.body.items = <<>>

\* the status the specification maps a collaborator failure to
MappedStatus(e) ==
    CASE e \in {"InstanceNotFound", "NotFound", "PortNotFound"} -> 404
      [] e = "NotImplementedError" -> 501
      [] e = "InterfaceAttachFailed" -> 500
      [] OTHER -> 0

\* the calls of one request: at most one attach_interface, after validation
\* and a get that found the instance; at most one detach_interface, after such
\* a get; none of either in list and show; no call after a failed one
CallDiscipline(q) ==
    /\ Count(q, "attach_interface") <= 1
    /\ Count(q, "detach_interface") <= 1
    /\ Has(q, "attach_interface")
          => /\ q.op = "create"
             /\ Has(q, "validate") /\ Index(q, "validate") < Index(q, "attach_interface")
             /\ Index(q, "attach_interface") > 1
             /\ q.trace[Index(q, "attach_interface") - 1] = "get"
    /\ Has(q, "detach_interface")
          => /\ q.op = "delete"
             /\ Index(q, "detach_interface") > 1
             /\ q.trace[Index(q, "detach_interface") - 1] = "get"
    /\ q.op \in {"index", "show"}
          => ~Has(q, "attach_interface") /\ ~Has(q, "detach_interface")
    /\ q.failure # "" => q.pc = "done" /\ Last(q) \in Collaborators

MappedErrors(q) == q.failure # "" => q.resp.status = MappedStatus(q.failure)

\* C10: within one request the controller never retries and never mutates
\* early (the calls obey CallDiscipline), and every collaborator failure ends
\* the request with the error it is mapped to.
C10_NoRetry ==
    \A r \in Reqs : CallDiscipline(req[r]) /\ MappedErrors(req[r])

\* the call discipline of C10 alone
C10_CallDiscipline == \A r \in Reqs : CallDiscipline(req[r])

====
